---- MODULE Spec2Model ----
(***************************************************************************)
(* Model of the Runway video generator.                                    *)
(*                                                                         *)
(*   - the page component (src/app/page.tsx): the five image slots, the    *)
(*     main generation handler, frame capture and the exploration chain;   *)
(*     every asynchronous handler is split at its awaits, each segment     *)
(*     between two awaits being one atomic action (React applies the       *)
(*     state updates of one segment together);                             *)
(*   - the two route handlers (src/unnamed/part_000): POST /api/explore    *)
(*     and POST /api/generate, with the provider's tasks as small state    *)
(*     machines.                                                           *)
(***************************************************************************)
EXTENDS Naturals, Sequences, FiniteSets

\* ------------------------------------------------------------------ bounds
\* handleGenerate and handleExplore are started at most MaxStarts times in a
\* behaviour, taken together; at most MaxClickStarts times where the clicks
\* on videos are followed.
MaxStarts == 3
MaxClickStarts == 2
\* Slots are filled or emptied at most MaxSlotEdits times in a behaviour of
\* the whole page, and at most MaxUploadEdits times in a behaviour of the
\* upload form alone.
MaxSlotEdits == 2
MaxUploadEdits == 4

\* ------------------------------------------------------------------ values
\* null, and a non-null value x, of a nullable field
Null == <<>>
Some(x) == <<x>>

\* the five image slots, by index (page.tsx 22-28)
Slots == 0 .. 4
FrontSlot == 0
BackgroundSlot == 4

\* what the user can type in the prompt textarea: sequences of characters
PromptInputs == { <<>>, <<" ">>, <<" ", "a">> }

IsSpace(c) == c = " "

RECURSIVE TrimStart(_)
TrimStart(s) ==
  IF s # <<>> /\ IsSpace(Head(s)) THEN TrimStart(Tail(s)) ELSE s

RECURSIVE TrimEnd(_)
TrimEnd(s) ==
  IF s # <<>> /\ IsSpace(s[Len(s)]) THEN TrimEnd(SubSeq(s, 1, Len(s) - 1)) ELSE s

\* String.prototype.trim
Trim(s) == TrimEnd(TrimStart(s))

\* URLs the gateways answer with: one per generation and kind, one per
\* exploration request
SettingUrl(g) == <<"setting", g>>
PersonUrl(g) == <<"person", g>>
ExploreUrl(r) == <<"explore", r>>

\* the data URI captureFrame makes of the video showing url
FrameOf(url) == [src |-> url]

\* crypto.randomUUID(): a fresh id; one is drawn per completed request
RandomUUID(r) == <<"uuid", r>>

\* error texts the gateways can carry in a non-OK body ("" is no error field)
ServerErrors == { "", "Video generation failed" }

VARIABLES
  images,        \* slot index -> whether the slot holds a file
  status,        \* TaskStatus of the main generation
  statusMessage,
  videos,        \* Null or Some([setting, person])
  exploreChain,  \* sequence of ExploreNode
  capturedFrame, \* Null or Some(frame)
  explorePrompt,
  exploreStatus,
  exploreMessage,
  genCalls,      \* the handleGenerate invocations that have not returned
  exploreCalls,  \* the handleExplore invocations that have not returned
  genCount,      \* handleGenerate invocations started so far
  exploreCount,  \* handleExplore invocations started so far
  slotEdits,     \* times a slot was filled or emptied so far
  lastOp,        \* history: the handler segment that ran last
  trail,         \* history: the last navigateTo and the append that followed
  gwRequest,     \* route handlers: the request being served, or Null
  gwPc,          \* where its POST handler stands
  gwTasks,       \* the provider tasks it created, by name
  gwAwaited,     \* the promise it awaits: pending, fulfilled or rejected
  gwResponse     \* the response it returned, or Null

vars == << images, status, statusMessage, videos, exploreChain, capturedFrame,
           explorePrompt, exploreStatus, exploreMessage, genCalls,
           exploreCalls, genCount, exploreCount, slotEdits, lastOp, trail,
           gwRequest, gwPc, gwTasks, gwAwaited, gwResponse >>

pageVars == << images, status, statusMessage, videos, exploreChain,
               capturedFrame, explorePrompt, exploreStatus, exploreMessage,
               genCalls, exploreCalls, genCount, exploreCount, slotEdits,
               lastOp, trail >>
gatewayVars == << gwRequest, gwPc, gwTasks, gwAwaited, gwResponse >>

uploadVars == << images, slotEdits >>
mainVars == << status, statusMessage, videos >>
exploreVars == << exploreChain, capturedFrame, explorePrompt, exploreStatus,
                 exploreMessage >>

\* lastOp: navigateTo (arg: the index), goToRoot (arg: the length of the chain
\* it reset), append (arg: the call's id), click (arg: 1 if the video clicked
\* was paused, else 0; only where the clicks are followed), or any other
\* handler
Op(name, arg) == [op |-> name, arg |-> arg]
Other == Op("other", 0)

Init ==
  /\ images = [i \in Slots |-> FALSE]
  /\ status = "idle"
  /\ statusMessage = ""
  /\ videos = Null
  /\ exploreChain = <<>>
  /\ capturedFrame = Null
  /\ explorePrompt = <<>>
  /\ exploreStatus = "idle"
  /\ exploreMessage = ""
  /\ genCalls = {}
  /\ exploreCalls = {}
  /\ genCount = 0
  /\ exploreCount = 0
  /\ slotEdits = 0
  /\ lastOp = Other
  /\ trail = Null
  /\ gwRequest = Null
  /\ gwPc = "idle"
  /\ gwTasks = <<>>
  /\ gwAwaited = [state |-> "none",
                  error |-> [isError |-> TRUE, message |-> "task failed"]]
  /\ gwResponse = Null

\* ------------------------------------------------------- derived render values
\* faulty variant: images[0].file || images[4].file
eitherRequiredUploaded == images[FrontSlot] \/ images[BackgroundSlot]

allRequiredUploaded == images[FrontSlot] /\ images[BackgroundSlot]

currentExploreVideo ==
  IF Len(exploreChain) > 0 THEN Some(exploreChain[Len(exploreChain)].videoUrl)
  ELSE Null

isExploring == Len(exploreChain) > 0 \/ capturedFrame # Null

\* faulty variant: a disabled clause that lets only idle and done through
BusyUnlessDone(s) == s # "idle" /\ s # "done"

\* a button's disabled clause on a TaskStatus
Busy(s) == s # "idle" /\ s # "done" /\ s # "error"

GenerateDisabled == ~allRequiredUploaded \/ Busy(status)

ExploreDisabled == Trim(explorePrompt) = <<>> \/ Busy(exploreStatus)

\* the sections the component renders
OriginalVideosShown == videos # Null /\ ~isExploring
ExplorationViewShown == videos # Null /\ isExploring
CapturePanelShown == ExplorationViewShown /\ capturedFrame # Null

\* ------------------------------------------------------------ upload slots
\* handleImageSelect(index, e): no file chosen returns at once; otherwise the
\* reader's onload stores the file in the slot (a slot that held a file
\* holds the new one)
HandleImageSelect(index, hasFile) ==
  /\ images' = IF hasFile THEN [images EXCEPT ![index] = TRUE] ELSE images
  /\ slotEdits' = IF hasFile /\ ~images[index] THEN slotEdits + 1 ELSE slotEdits
  /\ lastOp' = Other
  /\ UNCHANGED << mainVars, exploreVars, genCalls, exploreCalls, genCount,
                  exploreCount, trail >>

\* removeImage(index): rendered for a slot that shows a preview
RemoveImage(index) ==
  /\ images[index]
  /\ images' = [images EXCEPT ![index] = FALSE]
  /\ slotEdits' = slotEdits + 1
  /\ lastOp' = Other
  /\ UNCHANGED << mainVars, exploreVars, genCalls, exploreCalls, genCount,
                  exploreCount, trail >>

\* ---------------------------------------------------------- main generation
\* faulty variant: handleGenerate without setVideos(null)
HandleGenerateKeepsVideos ==
  /\ ~GenerateDisabled
  /\ allRequiredUploaded
  /\ genCount' = genCount + 1
  /\ status' = "uploading"
  /\ statusMessage' = "Preparing images..."
  /\ exploreChain' = <<>>
  /\ capturedFrame' = Null
  /\ genCalls' = genCalls \cup
       { [id |-> genCount + 1, pc |-> "encode",
          front |-> images[FrontSlot], background |-> images[BackgroundSlot]] }
  /\ lastOp' = Other
  /\ trail' = Null
  /\ UNCHANGED << uploadVars, videos, explorePrompt, exploreStatus,
                  exploreMessage, exploreCalls, exploreCount >>

\* handleGenerate, from the click to the first await: the Generate button
\* is clickable only when it is not disabled; the call keeps the files of the
\* render it was clicked in (front, background: whether it holds one)
HandleGenerate ==
  /\ ~GenerateDisabled
  /\ allRequiredUploaded
  /\ genCount' = genCount + 1
  /\ status' = "uploading"
  /\ statusMessage' = "Preparing images..."
  /\ videos' = Null
  /\ exploreChain' = <<>>
  /\ capturedFrame' = Null
  /\ genCalls' = genCalls \cup
       { [id |-> genCount + 1, pc |-> "encode",
          front |-> images[FrontSlot], background |-> images[BackgroundSlot]] }
  /\ lastOp' = Other
  /\ trail' = Null
  /\ UNCHANGED << uploadVars, explorePrompt, exploreStatus, exploreMessage,
                  exploreCalls, exploreCount >>

\* the catch clause of handleGenerate
GenerateCatch(c, message) ==
  /\ status' = "error"
  /\ statusMessage' = message
  /\ genCalls' = genCalls \ {c}
  /\ lastOp' = Other
  /\ UNCHANGED << uploadVars, videos, exploreVars, exploreCalls, genCount,
                  exploreCount, trail >>

\* both files are encoded and the request is sent, or a reader fails (as
\* it does when given no file)
GenerateEncoded(c, readOk) ==
  /\ c \in genCalls /\ c.pc = "encode"
  /\ readOk => c.front /\ c.background
  /\ IF readOk
       THEN /\ status' = "generating"
            /\ statusMessage' = "Sending to Runway ML..."
            /\ genCalls' = (genCalls \ {c}) \cup { [c EXCEPT !.pc = "fetch"] }
            /\ lastOp' = Other
            /\ UNCHANGED << uploadVars, videos, exploreVars, exploreCalls,
                            genCount, exploreCount, trail >>
       ELSE GenerateCatch(c, "An error occurred")

\* err.error || fallback
ErrorText(serverError, fallback) ==
  IF serverError = "" THEN fallback ELSE serverError

\* fetch("/api/generate") settles: an OK response, a non-OK response whose
\* body carries serverError, or a rejection
GenerateResponse(c, outcome, serverError) ==
  /\ c \in genCalls /\ c.pc = "fetch"
  /\ CASE outcome = "ok" ->
            /\ status' = "polling"
            /\ statusMessage' = "Videos are being generated..."
            /\ genCalls' = (genCalls \ {c}) \cup { [c EXCEPT !.pc = "json"] }
            /\ lastOp' = Other
            /\ UNCHANGED << uploadVars, videos, exploreVars, exploreCalls,
                            genCount, exploreCount, trail >>
       [] outcome = "notOk" ->
            GenerateCatch(c, ErrorText(serverError, "Generation failed"))
       [] outcome = "rejected" ->
            /\ serverError = ""
            /\ GenerateCatch(c, "Failed to fetch")

\* the OK body is parsed: each URL is the task's first output or null
GenerateData(c, settingVideoUrl, personVideoUrl) ==
  /\ c \in genCalls /\ c.pc = "json"
  /\ videos' = Some([setting |-> settingVideoUrl, person |-> personVideoUrl])
  /\ status' = "done"
  /\ statusMessage' = "Videos generated successfully!"
  /\ genCalls' = genCalls \ {c}
  /\ lastOp' = Other
  /\ UNCHANGED << uploadVars, exploreVars, exploreCalls, genCount, exploreCount,
                  trail >>

\* the bodies an OK answer of /api/generate is drawn from: both tasks gave an
\* output, or neither did
GenerateBodies(g) ==
  { <<SettingUrl(g), PersonUrl(g)>>, <<Null, Null>> }

FetchOutcomes == { "ok", "notOk", "rejected" }

\* --------------------------------------------------------------- frame capture
\* the videos a click can land on, and the URL each one shows
VideoKeys == { "setting", "person", "explore" }

VideoRendered(key) ==
  IF key = "explore" THEN ExplorationViewShown /\ currentExploreVideo # Null
  ELSE OriginalVideosShown

VideoSrc(key) ==
  CASE key = "setting" -> videos[1].setting
    [] key = "person" -> videos[1].person
    [] key = "explore" -> currentExploreVideo[1]

\* what a click on a video can meet: no element behind the ref, a playing
\* video, a paused video whose canvas gives no 2d context, a paused video
ClickKinds == { "noElement", "playing", "noContext", "paused" }

\* history: 1 for a click that met a paused video, 0 for any other click
Paused(click) == IF click \in {"noContext", "paused"} THEN 1 ELSE 0

\* captureFrame(videoEl): without a 2d context nothing is set
CaptureFrame(key, click) ==
  IF click = "noContext"
    THEN UNCHANGED << capturedFrame, explorePrompt >>
    ELSE /\ capturedFrame' = Some(FrameOf(VideoSrc(key)))
         /\ explorePrompt' = <<>>

\* faulty variant: handleVideoClick without the paused test
HandleVideoClickAnyState(key, click) ==
  /\ VideoRendered(key)
  /\ IF click = "noElement"
       THEN UNCHANGED << capturedFrame, explorePrompt >>
       ELSE CaptureFrame(key, click)
  /\ UNCHANGED << uploadVars, mainVars, exploreChain, exploreStatus,
                  exploreMessage, genCalls, exploreCalls, genCount,
                  exploreCount, trail >>

\* handleVideoClick(videoEl): only a paused video is captured
HandleVideoClick(key, click) ==
  /\ VideoRendered(key)
  /\ IF click = "noElement" \/ click = "playing"
       THEN UNCHANGED << capturedFrame, explorePrompt >>
       ELSE CaptureFrame(key, click)
  /\ UNCHANGED << uploadVars, mainVars, exploreChain, exploreStatus,
                  exploreMessage, genCalls, exploreCalls, genCount,
                  exploreCount, trail >>

\* the Discard button under the captured frame
DiscardFrame ==
  /\ CapturePanelShown
  /\ capturedFrame' = Null
  /\ UNCHANGED << uploadVars, mainVars, exploreChain, explorePrompt, exploreStatus,
                  exploreMessage, genCalls, exploreCalls, genCount,
                  exploreCount, trail >>
  /\ lastOp' = Other

\* the prompt textarea's onChange
TypePrompt(p) ==
  /\ CapturePanelShown
  /\ p # explorePrompt
  /\ explorePrompt' = p
  /\ UNCHANGED << uploadVars, mainVars, exploreChain, capturedFrame, exploreStatus,
                  exploreMessage, genCalls, exploreCalls, genCount,
                  exploreCount, trail >>
  /\ lastOp' = Other

\* ----------------------------------------------------------------- exploration
\* the body of the /api/explore request
ExploreBody(frame, prompt) == [image |-> frame, prompt |-> Trim(prompt)]

\* handleExplore, from the click to the fetch: the call keeps the
\* capturedFrame and explorePrompt of the render it was clicked in, and
\* request is the body it sent
HandleExplore ==
  /\ CapturePanelShown
  /\ ~ExploreDisabled
  /\ capturedFrame # Null /\ Trim(explorePrompt) # <<>>
  /\ exploreCount' = exploreCount + 1
  /\ exploreStatus' = "generating"
  /\ exploreMessage' = "Generating new video from this frame..."
  /\ exploreCalls' = exploreCalls \cup
       { [id |-> exploreCount + 1, pc |-> "fetch",
          capturedFrame |-> capturedFrame[1], explorePrompt |-> explorePrompt,
          request |-> ExploreBody(capturedFrame[1], explorePrompt),
          abandoned |-> FALSE] }
  /\ lastOp' = Other
  /\ UNCHANGED << uploadVars, mainVars, exploreChain, capturedFrame, explorePrompt,
                  genCalls, genCount, trail >>

\* faulty variant: a catch clause that also drops the frame and the prompt
ExploreCatchClears(c, message) ==
  /\ exploreStatus' = "error"
  /\ exploreMessage' = message
  /\ capturedFrame' = Null
  /\ explorePrompt' = <<>>
  /\ exploreCalls' = exploreCalls \ {c}
  /\ lastOp' = Other
  /\ UNCHANGED << uploadVars, mainVars, exploreChain, genCalls, genCount,
                  exploreCount, trail >>

\* the catch clause of handleExplore
ExploreCatch(c, message) ==
  /\ exploreStatus' = "error"
  /\ exploreMessage' = message
  /\ exploreCalls' = exploreCalls \ {c}
  /\ lastOp' = Other
  /\ UNCHANGED << uploadVars, mainVars, exploreChain, capturedFrame, explorePrompt,
                  genCalls, genCount, exploreCount, trail >>

\* fetch("/api/explore") settles
ExploreResponse(c, outcome, serverError) ==
  /\ c \in exploreCalls /\ c.pc = "fetch"
  /\ CASE outcome = "ok" ->
            /\ exploreStatus' = "polling"
            /\ exploreMessage' = "Video is being generated..."
            /\ exploreCalls' =
                 (exploreCalls \ {c}) \cup { [c EXCEPT !.pc = "json"] }
            /\ lastOp' = Other
            /\ UNCHANGED << uploadVars, mainVars, exploreChain, capturedFrame,
                            explorePrompt, genCalls, genCount, exploreCount,
                            trail >>
       [] outcome = "notOk" ->
            ExploreCatch(c, ErrorText(serverError, "Explore generation failed"))
       [] outcome = "rejected" ->
            /\ serverError = ""
            /\ ExploreCatch(c, "Failed to fetch")

\* faulty variant: the node's prompt read from the state at completion
NewNodeOfLatestPrompt(c, videoUrl) ==
  [id |-> RandomUUID(c.id), prompt |-> Trim(explorePrompt),
   frameImage |-> c.capturedFrame, videoUrl |-> videoUrl]

\* the node a call builds from its own frame and prompt and the URL returned
NewNode(c, videoUrl) ==
  [id |-> RandomUUID(c.id), prompt |-> Trim(c.explorePrompt),
   frameImage |-> c.capturedFrame, videoUrl |-> videoUrl]

\* faulty variant: [newNode, ...prev]
Prepended(prev, newNode) == <<newNode>> \o prev

\* setExploreChain((prev) => [...prev, newNode])
Appended(prev, newNode) == Append(prev, newNode)

\* the trail after an append: it completes a navigateTo that no other chain
\* transition has followed, and is forgotten otherwise
TrailAppended(newNode) ==
  IF trail # Null /\ ~trail[1].appended
    THEN Some([trail[1] EXCEPT !.appended = TRUE, !.node = Some(newNode)])
    ELSE Null

\* faulty variant: the append without setCapturedFrame(null)
ExploreDataKeepsFrame(c, videoUrl) ==
  /\ c \in exploreCalls /\ c.pc = "json"
  /\ IF videoUrl = Null
       THEN ExploreCatch(c, "No video URL returned")
       ELSE /\ exploreChain' = Appended(exploreChain, NewNode(c, videoUrl))
            /\ explorePrompt' = <<>>
            /\ exploreStatus' = "done"
            /\ exploreMessage' = "Exploration video generated!"
            /\ exploreCalls' = exploreCalls \ {c}
            /\ lastOp' = Op("append", c.id)
            /\ trail' = TrailAppended(NewNode(c, videoUrl))
            /\ UNCHANGED << uploadVars, mainVars, capturedFrame, genCalls,
                            genCount, exploreCount >>

\* the OK body is parsed: a URL appends a node, a null URL throws
ExploreData(c, videoUrl) ==
  /\ c \in exploreCalls /\ c.pc = "json"
  /\ IF videoUrl = Null
       THEN ExploreCatch(c, "No video URL returned")
       ELSE /\ exploreChain' = Appended(exploreChain, NewNode(c, videoUrl))
            /\ capturedFrame' = Null
            /\ explorePrompt' = <<>>
            /\ exploreStatus' = "done"
            /\ exploreMessage' = "Exploration video generated!"
            /\ exploreCalls' = exploreCalls \ {c}
            /\ lastOp' = Op("append", c.id)
            /\ trail' = TrailAppended(NewNode(c, videoUrl))
            /\ UNCHANGED << uploadVars, mainVars, genCalls, genCount,
                            exploreCount >>

\* ------------------------------------------------------------ chain navigation
\* faulty variant: slice(0, end - 1)
SliceExclusive(s, end) == SubSeq(s, 1, end - 1)

\* faulty variant: slice(-end), the last end elements
SliceFromEnd(s, end) ==
  SubSeq(s, IF end < Len(s) THEN Len(s) - end + 1 ELSE 1, Len(s))

\* Array.prototype.slice(0, end)
Slice(s, end) == SubSeq(s, 1, IF end < Len(s) THEN end ELSE Len(s))

\* history: a navigation leaves behind every call whose request is in flight
Abandon(calls) ==
  { IF c.pc = "fetch" THEN [c EXCEPT !.abandoned = TRUE] ELSE c : c \in calls }

\* navigateTo(index): a breadcrumb or a thumbnail of node index is clicked
NavigateTo(index) ==
  /\ ExplorationViewShown
  /\ index \in 0 .. Len(exploreChain) - 1
  /\ exploreChain' = Slice(exploreChain, index + 1)
  /\ capturedFrame' = Null
  /\ explorePrompt' = <<>>
  /\ exploreStatus' = "idle"
  /\ exploreMessage' = ""
  /\ exploreCalls' = Abandon(exploreCalls)
  /\ lastOp' = Op("navigateTo", index)
  /\ trail' = Some([base |-> exploreChain, index |-> index,
                    appended |-> FALSE, node |-> Null])
  /\ UNCHANGED << uploadVars, mainVars, genCalls, genCount, exploreCount >>

\* faulty variant: goToRoot that navigates to the first node
GoToRootKeepsFirst ==
  /\ ExplorationViewShown
  /\ exploreChain' = Slice(exploreChain, 1)
  /\ capturedFrame' = Null
  /\ explorePrompt' = <<>>
  /\ exploreStatus' = "idle"
  /\ exploreMessage' = ""
  /\ exploreCalls' = Abandon(exploreCalls)
  /\ lastOp' = Op("goToRoot", Len(exploreChain))
  /\ trail' = Null
  /\ UNCHANGED << uploadVars, mainVars, genCalls, genCount, exploreCount >>

\* goToRoot: the "Original Videos" breadcrumb is clicked
GoToRoot ==
  /\ ExplorationViewShown
  /\ exploreChain' = <<>>
  /\ capturedFrame' = Null
  /\ explorePrompt' = <<>>
  /\ exploreStatus' = "idle"
  /\ exploreMessage' = ""
  /\ exploreCalls' = Abandon(exploreCalls)
  /\ lastOp' = Op("goToRoot", Len(exploreChain))
  /\ trail' = Null
  /\ UNCHANGED << uploadVars, mainVars, genCalls, genCount, exploreCount >>

\* ------------------------------------------------------------- specification
\* a slot may still be filled or emptied, a handler still be started, under
\* the bound max
MayEdit(max) == slotEdits < max
MayStart(max) == genCount + exploreCount < max

\* the steps of the page other than a click on a video, with the route
\* handlers idle
PageSteps(maxStarts, maxEdits) ==
  \/ /\ \E index \in Slots, hasFile \in BOOLEAN :
          /\ (hasFile /\ ~images[index]) => MayEdit(maxEdits)
          /\ HandleImageSelect(index, hasFile)
     /\ UNCHANGED gatewayVars
  \/ /\ \E index \in Slots : MayEdit(maxEdits) /\ RemoveImage(index)
     /\ UNCHANGED gatewayVars
  \/ /\ MayStart(maxStarts) /\ HandleGenerate
     /\ UNCHANGED gatewayVars
  \/ /\ \E c \in genCalls, readOk \in BOOLEAN : GenerateEncoded(c, readOk)
     /\ UNCHANGED gatewayVars
  \/ /\ \E c \in genCalls, outcome \in FetchOutcomes, e \in ServerErrors :
          GenerateResponse(c, outcome, e)
     /\ UNCHANGED gatewayVars
  \/ /\ \E c \in genCalls : \E body \in GenerateBodies(c.id) :
          GenerateData(c, body[1], body[2])
     /\ UNCHANGED gatewayVars
  \/ /\ DiscardFrame
     /\ UNCHANGED gatewayVars
  \/ /\ \E p \in PromptInputs : TypePrompt(p)
     /\ UNCHANGED gatewayVars
  \/ /\ MayStart(maxStarts) /\ HandleExplore
     /\ UNCHANGED gatewayVars
  \/ /\ \E c \in exploreCalls, outcome \in FetchOutcomes, e \in ServerErrors :
          ExploreResponse(c, outcome, e)
     /\ UNCHANGED gatewayVars
  \/ /\ \E c \in exploreCalls : \E u \in {Null, ExploreUrl(c.id)} :
          ExploreData(c, u)
     /\ UNCHANGED gatewayVars
  \/ /\ \E index \in 0 .. maxStarts : NavigateTo(index)
     /\ UNCHANGED gatewayVars
  \/ /\ GoToRoot
     /\ UNCHANGED gatewayVars

\* the page
Next ==
  \/ PageSteps(MaxStarts, MaxSlotEdits)
  \/ /\ \E key \in VideoKeys, click \in ClickKinds :
          HandleVideoClick(key, click)
     /\ lastOp' = Other
     /\ UNCHANGED gatewayVars

Spec == Init /\ [][Next]_vars

\* the upload form and the main generation alone: no video is ever clicked
UploadNext ==
  \/ /\ \E index \in Slots, hasFile \in BOOLEAN :
          /\ (hasFile /\ ~images[index]) => MayEdit(MaxUploadEdits)
          /\ HandleImageSelect(index, hasFile)
     /\ UNCHANGED gatewayVars
  \/ /\ \E index \in Slots : MayEdit(MaxUploadEdits) /\ RemoveImage(index)
     /\ UNCHANGED gatewayVars
  \/ /\ MayStart(MaxStarts) /\ HandleGenerate
     /\ UNCHANGED gatewayVars
  \/ /\ \E c \in genCalls, readOk \in BOOLEAN : GenerateEncoded(c, readOk)
     /\ UNCHANGED gatewayVars
  \/ /\ \E c \in genCalls, outcome \in FetchOutcomes, e \in ServerErrors :
          GenerateResponse(c, outcome, e)
     /\ UNCHANGED gatewayVars
  \/ /\ \E c \in genCalls : \E body \in GenerateBodies(c.id) :
          GenerateData(c, body[1], body[2])
     /\ UNCHANGED gatewayVars

UploadSpec == Init /\ [][UploadNext]_vars

\* the page, each click on a video leaving its trace in lastOp
ClickNext ==
  \/ PageSteps(MaxClickStarts, MaxSlotEdits)
  \/ /\ \E key \in VideoKeys, click \in ClickKinds :
          /\ HandleVideoClick(key, click)
          /\ lastOp' = Op("click", Paused(click))
     /\ UNCHANGED gatewayVars

ClickSpec == Init /\ [][ClickNext]_vars

\* ============================================================ route handlers
\* POST /api/explore and POST /api/generate. The handlers keep no state
\* between requests, so one request is served at a time here; the provider
\* is the environment: a task is submitted (create), is created or refused,
\* and then succeeds, fails or outlives the wait.

\* undefined, and a JSON string
Absent == <<>>
Str(x) == <<x>>

\* !v for a destructured body field
Falsy(v) == v = Absent \/ v = Str("")

ImageValues == { Absent, Str(""), Str("data:front"), Str("data:back") }
PromptValues == { Absent, Str(""), Str("zoom in") }

\* what the request carries: a JSON object, the JSON value null, or text
\* that is not JSON (an empty body included)
BodyKinds == { "object", "null", "malformed" }

NoFields(kind) == kind # "object"

GenerateRequests ==
  { [route |-> "generate", body |-> "object", frontImage |-> f,
     backgroundImage |-> b] : f, b \in ImageValues }
  \cup { [route |-> "generate", body |-> k, frontImage |-> Absent,
          backgroundImage |-> Absent] : k \in BodyKinds \ {"object"} }

ExploreRequests ==
  { [route |-> "explore", body |-> "object", image |-> i, prompt |-> p] :
      i \in ImageValues \ {Str("data:back")}, p \in PromptValues }
  \cup { [route |-> "explore", body |-> k, image |-> Absent,
          prompt |-> Absent] : k \in BodyKinds \ {"object"} }

\* what const { a, b } = await req.json() throws when the body is no object:
\* json() rejects with a SyntaxError, destructuring null throws a TypeError
ParseError(kind) ==
  [isError |-> TRUE,
   message |-> IF kind = "malformed" THEN "Unexpected end of JSON input"
               ELSE "Cannot destructure property of null"]

SettingPrompt == "Slow cinematic pan across this scene, ..."
PersonPrompt == "Person talking naturally and expressively, ..."

\* client.imageToVideo.create({promptImage, promptText, ...}): the request
\* is sent when create is called
CreateTask(image, text) ==
  [state |-> "submitted", promptImage |-> image, promptText |-> text,
   output |-> [present |-> FALSE, list |-> <<>>]]

\* faulty variant: the person task created only after the setting task is awaited
GenerateTasksInTurn(req) ==
  [n \in {"setting"} |-> CreateTask(req.backgroundImage[1], SettingPrompt)]

\* the two elements of the array given to Promise.all
GenerateTasks(req) ==
  [n \in {"setting", "person"} |->
     IF n = "setting" THEN CreateTask(req.backgroundImage[1], SettingPrompt)
     ELSE CreateTask(req.frontImage[1], PersonPrompt)]

ExploreTasks(req) ==
  [n \in {"explore"} |-> CreateTask(req.image[1], req.prompt[1])]

\* !frontImage || !backgroundImage
GenerateInvalid(req) == Falsy(req.frontImage) \/ Falsy(req.backgroundImage)

\* !image || !prompt
ExploreInvalid(req) == Falsy(req.image) \/ Falsy(req.prompt)

\* task states
Refused == { "rejected", "failed", "timedOut" }
Pending == { "submitted", "running" }

\* the Error each refusal throws
TaskError(state) ==
  [isError |-> TRUE,
   message |-> CASE state = "rejected" -> "create failed"
                 [] state = "failed" -> "task failed"
                 [] state = "timedOut" -> "task timed out"]

\* error instanceof Error ? error.message : "Video generation failed"
ErrorMessage(error) ==
  IF error.isError THEN error.message ELSE "Video generation failed"

\* result.output?.[0] ?? null
FirstOutput(output) ==
  IF output.present /\ Len(output.list) > 0 THEN Str(output.list[1]) ELSE Null

\* the outputs a succeeded task named n can carry
TaskOutputs(n) ==
  { [present |-> FALSE, list |-> <<>>], [present |-> TRUE, list |-> <<>>],
    [present |-> TRUE, list |-> << <<n, 1>> >>],
    [present |-> TRUE, list |-> << <<n, 1>>, <<n, 2>> >>] }

NotAwaited == [state |-> "none", error |-> TaskError("failed")]
AwaitPending == [state |-> "pending", error |-> TaskError("failed")]

\* faulty variant: Promise.allSettled: fulfilled once no task is pending
PromiseAllSettled(awaited, tasks, n) ==
  IF awaited.state # "pending" THEN awaited
  ELSE IF \A m \in DOMAIN tasks : tasks[m].state \notin Pending
    THEN [awaited EXCEPT !.state = "fulfilled"]
  ELSE awaited

\* faulty variant: Promise.any: fulfilled by the first task that succeeds
PromiseAny(awaited, tasks, n) ==
  IF awaited.state # "pending" THEN awaited
  ELSE IF tasks[n].state \in Refused
    THEN [state |-> "rejected", error |-> TaskError(tasks[n].state)]
  ELSE IF tasks[n].state = "succeeded"
    THEN [awaited EXCEPT !.state = "fulfilled"]
  ELSE awaited

\* the awaited promise (Promise.all of the waits, or the single wait) after
\* task n moved: rejected by the first refusal, fulfilled when every task
\* has succeeded
PromiseAll(awaited, tasks, n) ==
  IF awaited.state # "pending" THEN awaited
  ELSE IF tasks[n].state \in Refused
    THEN [state |-> "rejected", error |-> TaskError(tasks[n].state)]
  ELSE IF \A m \in DOMAIN tasks : tasks[m].state = "succeeded"
    THEN [awaited EXCEPT !.state = "fulfilled"]
  ELSE awaited

\* NextResponse.json(body, {status})
Respond(code, body) ==
  /\ gwResponse' = Some([status |-> code, body |-> body])
  /\ gwPc' = "responded"

\* a request arrives: the handler runs to await req.json()
Receive(req) ==
  /\ gwPc \in {"idle", "responded"}
  /\ gwRequest' = Some(req)
  /\ gwPc' = "parsing"
  /\ gwTasks' = <<>>
  /\ gwAwaited' = NotAwaited
  /\ gwResponse' = Null
  /\ UNCHANGED pageVars

\* POST (generate), from req.json() to the await of Promise.all
PostGenerate ==
  /\ gwPc = "parsing" /\ gwRequest[1].route = "generate"
  /\ LET req == gwRequest[1] IN
       IF NoFields(req.body)
         THEN /\ Respond(500, [error |-> ErrorMessage(ParseError(req.body))])
              /\ UNCHANGED << gwTasks, gwAwaited >>
       ELSE IF GenerateInvalid(req)
         THEN /\ Respond(400,
                   [error |-> "Front image and background image are required"])
              /\ UNCHANGED << gwTasks, gwAwaited >>
       ELSE /\ gwTasks' = GenerateTasks(req)
            /\ gwAwaited' = AwaitPending
            /\ gwPc' = "waiting"
            /\ UNCHANGED gwResponse
  /\ UNCHANGED << gwRequest, pageVars >>

\* POST (explore), from req.json() to the await of waitForTaskOutput
PostExplore ==
  /\ gwPc = "parsing" /\ gwRequest[1].route = "explore"
  /\ LET req == gwRequest[1] IN
       IF NoFields(req.body)
         THEN /\ Respond(500, [error |-> ErrorMessage(ParseError(req.body))])
              /\ UNCHANGED << gwTasks, gwAwaited >>
       ELSE IF ExploreInvalid(req)
         THEN /\ Respond(400, [error |-> "Image and prompt are required"])
              /\ UNCHANGED << gwTasks, gwAwaited >>
       ELSE /\ gwTasks' = ExploreTasks(req)
            /\ gwAwaited' = AwaitPending
            /\ gwPc' = "waiting"
            /\ UNCHANGED gwResponse
  /\ UNCHANGED << gwRequest, pageVars >>

\* the provider moves task n; the awaited promise follows
TaskMoves(n, from, to, output) ==
  /\ n \in DOMAIN gwTasks
  /\ gwTasks[n].state = from
  /\ gwTasks' = [gwTasks EXCEPT ![n].state = to, ![n].output = output]
  /\ gwAwaited' = PromiseAll(gwAwaited, gwTasks', n)
  /\ UNCHANGED << gwRequest, gwPc, gwResponse, pageVars >>

TaskCreated(n) == TaskMoves(n, "submitted", "running", gwTasks[n].output)
TaskRejected(n) == TaskMoves(n, "submitted", "rejected", gwTasks[n].output)
TaskSucceeded(n, output) == TaskMoves(n, "running", "succeeded", output)
TaskFailed(n) == TaskMoves(n, "running", "failed", gwTasks[n].output)
TaskTimedOut(n) == TaskMoves(n, "running", "timedOut", gwTasks[n].output)

\* the body of the 200 answer
SuccessBody(route, tasks) ==
  IF route = "generate"
    THEN [settingVideoUrl |-> FirstOutput(tasks["setting"].output),
          personVideoUrl |-> FirstOutput(tasks["person"].output)]
    ELSE [videoUrl |-> FirstOutput(tasks["explore"].output)]

\* faulty variant: a succeeded task without an output is answered as an error
AnswerRejectsEmpty ==
  /\ gwPc = "waiting" /\ gwAwaited.state \in {"fulfilled", "rejected"}
  /\ IF /\ gwAwaited.state = "fulfilled"
        /\ \A n \in DOMAIN gwTasks : FirstOutput(gwTasks[n].output) # Null
       THEN Respond(200, SuccessBody(gwRequest[1].route, gwTasks))
       ELSE Respond(500, [error |-> ErrorMessage(gwAwaited.error)])
  /\ UNCHANGED << gwRequest, gwTasks, gwAwaited, pageVars >>

\* faulty variant: the handler without its catch clause
AnswerUncaught ==
  /\ gwPc = "waiting" /\ gwAwaited.state = "fulfilled"
  /\ Respond(200, SuccessBody(gwRequest[1].route, gwTasks))
  /\ UNCHANGED << gwRequest, gwTasks, gwAwaited, pageVars >>

\* the await returns and the handler answers 200, or it throws and the catch
\* clause answers 500
Answer ==
  /\ gwPc = "waiting" /\ gwAwaited.state \in {"fulfilled", "rejected"}
  /\ IF gwAwaited.state = "fulfilled"
       THEN Respond(200, SuccessBody(gwRequest[1].route, gwTasks))
       ELSE Respond(500, [error |-> ErrorMessage(gwAwaited.error)])
  /\ UNCHANGED << gwRequest, gwTasks, gwAwaited, pageVars >>

TaskNames == { "setting", "person", "explore" }

GatewayNext ==
  \/ \E req \in GenerateRequests \cup ExploreRequests : Receive(req)
  \/ PostGenerate
  \/ PostExplore
  \/ \E n \in TaskNames : TaskCreated(n)
  \/ \E n \in TaskNames : TaskRejected(n)
  \/ \E n \in TaskNames : \E output \in TaskOutputs(n) : TaskSucceeded(n, output)
  \/ \E n \in TaskNames : TaskFailed(n)
  \/ \E n \in TaskNames : TaskTimedOut(n)
  \/ Answer

GatewaySpec == Init /\ [][GatewayNext]_vars

\* a provider task that can move does move: create settles, and the wait
\* ends with the task or with its own timeout
TaskProgress ==
  \E n \in TaskNames :
    \/ TaskCreated(n) \/ TaskRejected(n) \/ TaskFailed(n) \/ TaskTimedOut(n)
    \/ \E output \in TaskOutputs(n) : TaskSucceeded(n, output)

\* the route handlers, run by a runtime that resumes a handler whose await
\* has settled, with tasks that progress
GatewayLiveSpec ==
  /\ GatewaySpec
  /\ WF_vars(PostGenerate) /\ WF_vars(PostExplore) /\ WF_vars(Answer)
  /\ WF_vars(TaskProgress)

AbandonedResponseDiscarded ==
  [][ (\E c \in exploreCalls : c.abandoned /\ c \notin exploreCalls')
        => exploreChain' = exploreChain ]_vars

\* C3: at most one /api/generate request and at most one /api/explore
\* request is in flight.
InFlight(calls) == { c \in calls : c.pc = "fetch" }

OneRequestPerKind ==
  /\ Cardinality(InFlight(genCalls)) <= 1
  /\ Cardinality(InFlight(exploreCalls)) <= 1

\* C4: right after goToRoot the chain is empty.
ResetYieldsEmptyChain ==
  lastOp.op = "goToRoot" => exploreChain = <<>>

\* goToRoot has reset a non-empty chain while a request was pending
ResetReached ==
  /\ lastOp.op = "goToRoot"
  /\ lastOp.arg > 0
  /\ exploreCalls # {}

\* C5: navigateTo(index) leaves exactly the elements 0..index, in order, and
\* the video shown is the one of the element at index.
NavigateTruncates ==
  (trail # Null /\ ~trail[1].appended) =>
    LET t == trail[1] IN
      /\ exploreChain = SubSeq(t.base, 1, t.index + 1)
      /\ currentExploreVideo = Some(t.base[t.index + 1].videoUrl)

\* navigateTo has discarded at least one node
NavigateTruncatesReached ==
  /\ lastOp.op = "navigateTo"
  /\ trail # Null /\ ~trail[1].appended
  /\ Len(trail[1].base) > trail[1].index + 1

\* C6 (as amended): navigateTo and goToRoot leave capturedFrame null and the
\* exploration status idle; an append leaves capturedFrame null and the
\* exploration status done.
TransitionsClearCapture ==
  /\ lastOp.op \in {"navigateTo", "goToRoot"} =>
       capturedFrame = Null /\ exploreStatus = "idle"
  /\ lastOp.op = "append" =>
       capturedFrame = Null /\ exploreStatus = "done"

\* an append has happened
AppendReached ==
  /\ lastOp.op = "append"
  /\ exploreChain # <<>>

\* C6 (as stated): every chain transition, the append included, leaves
\* capturedFrame null and the exploration status idle.
TransitionsReturnToIdle ==
  lastOp.op \in {"append", "navigateTo", "goToRoot"} =>
    capturedFrame = Null /\ exploreStatus = "idle"

\* ================================================= the route handlers' claims
GenerateServed == gwRequest # Null /\ gwRequest[1].route = "generate"

Settled(n) == n \in DOMAIN gwTasks /\ gwTasks[n].state \notin Pending

\* C7: for a /generate request with both images, both tasks are submitted
\* before either is awaited: once the handler is past its input check the
\* setting task (from backgroundImage) and the person task (from frontImage)
\* both exist, and no state holds one without the other, whatever the order
\* they complete in.
BothSubmittedBeforeAwait ==
  /\ (GenerateServed /\ gwRequest[1].body = "object"
        /\ ~Falsy(gwRequest[1].frontImage)
        /\ ~Falsy(gwRequest[1].backgroundImage)
        /\ gwPc # "parsing") =>
       /\ DOMAIN gwTasks = {"setting", "person"}
       /\ gwTasks["setting"].promptImage = gwRequest[1].backgroundImage[1]
       /\ gwTasks["person"].promptImage = gwRequest[1].frontImage[1]
  /\ (GenerateServed /\ DOMAIN gwTasks # {}) =>
       DOMAIN gwTasks = {"setting", "person"}

\* the setting task has succeeded while the person task, submitted with it,
\* has not yet been created, and the handler still waits
SettingDoneFirstReached ==
  /\ GenerateServed /\ gwPc = "waiting"
  /\ Settled("setting") /\ gwTasks["setting"].state = "succeeded"
  /\ "person" \in DOMAIN gwTasks /\ gwTasks["person"].state = "submitted"
  /\ gwRequest[1].frontImage # gwRequest[1].backgroundImage

\* a required field is missing from the request: the body has no fields at
\* all, or it is an object without one of them
LacksField(req) ==
  \/ NoFields(req.body)
  \/ IF req.route = "generate"
       THEN req.frontImage = Absent \/ req.backgroundImage = Absent
       ELSE req.image = Absent \/ req.prompt = Absent

\* C8: a request with a missing required field is answered 400 with an
\* error body, and no task is submitted for it.
MissingFieldRejected ==
  (gwRequest # Null /\ LacksField(gwRequest[1])) =>
    /\ gwTasks = <<>>
    /\ gwPc \in {"parsing", "responded"}
    /\ gwPc = "responded" =>
         /\ gwResponse[1].status = 400
         /\ DOMAIN gwResponse[1].body = {"error"}
         /\ gwResponse[1].body.error # ""

\* C9: no partial success: once a task of a /generate request has failed,
\* the response is a 500 error without any video URL, even when the other
\* task succeeded; URLs are answered only when both tasks succeeded.
NoPartialSuccess ==
  (GenerateServed /\ gwResponse # Null) =>
    /\ (\E n \in DOMAIN gwTasks : gwTasks[n].state \in Refused) =>
         /\ gwResponse[1].status = 500
         /\ DOMAIN gwResponse[1].body = {"error"}
    /\ ("settingVideoUrl" \in DOMAIN gwResponse[1].body
          \/ "personVideoUrl" \in DOMAIN gwResponse[1].body) =>
         \A n \in {"setting", "person"} :
           n \in DOMAIN gwTasks /\ gwTasks[n].state = "succeeded"

\* the setting task succeeded with a video, the person task failed, and the
\* request was answered
OneFailedReached ==
  /\ GenerateServed /\ gwPc = "responded"
  /\ Settled("setting") /\ gwTasks["setting"].state = "succeeded"
  /\ gwTasks["setting"].output.list # <<>>
  /\ Settled("person") /\ gwTasks["person"].state = "failed"
  /\ gwResponse[1].status = 500

\* C10: the 200 answer of /generate is sent only when no task is pending, and
\* it carries the first output of both tasks in one body; while a task is
\* pending no answer carries a video URL.
ResultsReturnedTogether ==
  (GenerateServed /\ gwResponse # Null) =>
    /\ gwResponse[1].status = 200 =>
         /\ \A n \in {"setting", "person"} : Settled(n)
         /\ gwResponse[1].body =
              [settingVideoUrl |-> FirstOutput(gwTasks["setting"].output),
               personVideoUrl |-> FirstOutput(gwTasks["person"].output)]
    /\ (\E n \in DOMAIN gwTasks : gwTasks[n].state \in Pending) =>
         DOMAIN gwResponse[1].body = {"error"}

\* both tasks gave a video and the two URLs were answered together
BothReturnedReached ==
  /\ GenerateServed /\ gwPc = "responded"
  /\ gwResponse[1].status = 200
  /\ gwResponse[1].body.settingVideoUrl = Str(<<"setting", 1>>)
  /\ gwResponse[1].body.personVideoUrl = Str(<<"person", 1>>)

\* the URL field of the 200 body that answers for task n
UrlField(n) ==
  CASE n = "setting" -> "settingVideoUrl"
    [] n = "person" -> "personVideoUrl"
    [] n = "explore" -> "videoUrl"

NoOutput(n) == ~gwTasks[n].output.present \/ gwTasks[n].output.list = <<>>

\* C11: when every task of a request succeeded, the answer is 200 whatever
\* the outputs are; a task without an output (absent or empty list) gives
\* null in its own field, a task with outputs gives its first output, each
\* field of /generate from its own task.
EmptyOutputIsNull ==
  (gwRequest # Null /\ gwPc = "responded" /\ DOMAIN gwTasks # {}
     /\ \A n \in DOMAIN gwTasks : gwTasks[n].state = "succeeded") =>
    /\ gwResponse[1].status = 200
    /\ DOMAIN gwResponse[1].body = { UrlField(n) : n \in DOMAIN gwTasks }
    /\ \A n \in DOMAIN gwTasks :
         gwResponse[1].body[UrlField(n)] =
           IF NoOutput(n) THEN Null ELSE Str(gwTasks[n].output.list[1])

\* /generate was answered after the setting task gave a video and the person
\* task an empty output list
OneEmptyOutputReached ==
  /\ GenerateServed /\ gwPc = "responded"
  /\ \A n \in {"setting", "person"} : Settled(n) /\ gwTasks[n].state = "succeeded"
  /\ gwTasks["setting"].output.list # <<>>
  /\ gwTasks["person"].output = [present |-> TRUE, list |-> <<>>]
  /\ gwResponse[1].body.personVideoUrl = Null
  /\ gwResponse[1].body.settingVideoUrl # Null

\* ============================================== the page's claims, continued
\* the status changes one main generation may make, and those one exploration
\* submission may make; a finished exploration may be put back to idle
MainEdges ==
  { <<"idle", "uploading">>, <<"done", "uploading">>, <<"error", "uploading">>,
    <<"uploading", "generating">>, <<"generating", "polling">>,
    <<"polling", "done">>,
    <<"uploading", "error">>, <<"generating", "error">>, <<"polling", "error">> }

ExploreEdges ==
  { <<"idle", "generating">>, <<"done", "generating">>,
    <<"error", "generating">>, <<"generating", "polling">>,
    <<"polling", "done">>, <<"generating", "error">>, <<"polling", "error">>,
    <<"done", "idle">>, <<"error", "idle">> }

MainSequenced ==
  [][status' # status => <<status, status'>> \in MainEdges]_vars

\* C12: the main status goes uploading, generating, polling, then done or
\* error, done only from polling; the exploration status goes generating,
\* polling, then done or error, and no other value (idle) comes between a
\* submission and its done or error.
StatusSequencing ==
  [][/\ status' # status => <<status, status'>> \in MainEdges
     /\ exploreStatus' # exploreStatus =>
          <<exploreStatus, exploreStatus'>> \in ExploreEdges]_vars

\* a handleGenerate, or a handleExplore, invocation ends in its catch clause
GenerateFails ==
  Cardinality(genCalls') < Cardinality(genCalls) /\ status' # "done"

ExploreFails ==
  Cardinality(exploreCalls') < Cardinality(exploreCalls)
    /\ lastOp'.op # "append"

\* C13: a failed main generation, or exploration, leaves its status at error
\* with a message, and its button enabled if its inputs are still there: both
\* mandatory files for Generate, the captured frame and a prompt that is not
\* blank for Explore.
FailureAllowsRetry ==
  [][/\ GenerateFails =>
          /\ status' = "error" /\ statusMessage' # ""
          /\ allRequiredUploaded' => ~GenerateDisabled'
     /\ ExploreFails =>
          /\ exploreStatus' = "error" /\ exploreMessage' # ""
          /\ (capturedFrame' # Null /\ Trim(explorePrompt') # <<>>) =>
               CapturePanelShown' /\ ~ExploreDisabled']_vars

\* an exploration has failed with the server's message, nothing is in flight,
\* and the frame and the prompt are still there with Explore enabled
ExploreRetryReached ==
  /\ exploreStatus = "error" /\ exploreMessage = "Video generation failed"
  /\ exploreCalls = {}
  /\ capturedFrame # Null /\ Trim(explorePrompt) # <<>>
  /\ CapturePanelShown /\ ~ExploreDisabled

BothSlotsHeld == images[FrontSlot] /\ images[BackgroundSlot]

\* a handleGenerate invocation sends its request in this step
RequestIssued == \E c \in genCalls' : c.pc = "fetch" /\ c \notin genCalls

\* C14 as stated: a /api/generate request is issued only in a state where
\* both mandatory slots hold a file; with a slot empty the Generate button
\* is disabled and handleGenerate does not start.
RequestOnlyWithBothSlots ==
  [][/\ RequestIssued => BothSlotsHeld
     /\ ~BothSlotsHeld => GenerateDisabled
     /\ genCount' # genCount => BothSlotsHeld]_vars

\* C14, amended: handleGenerate starts only in a state where both mandatory
\* slots hold a file, and the request it issues carries the two files of
\* that state, wherever the slots stand when it is sent; with a slot empty
\* the Generate button is disabled and handleGenerate does not start.
RequestCarriesBothFiles ==
  [][/\ RequestIssued => \A c \in genCalls' : c.front /\ c.background
     /\ ~BothSlotsHeld => GenerateDisabled
     /\ genCount' # genCount =>
          BothSlotsHeld /\ \A c \in genCalls' : c.front /\ c.background]_vars

\* a request is in flight, sent with both files, and the front slot has been
\* emptied since the click
SlotEmptiedInFlightReached ==
  \E c \in genCalls :
    c.pc = "fetch" /\ c.front /\ c.background /\ ~images[FrontSlot]

\* C15: a click that meets no video element, or a video that is not paused,
\* changes neither capturedFrame nor explorePrompt, the chain or a status;
\* capturedFrame gets a new frame only by a click on a paused video.
UnpausedClickIsNoOp ==
  [][/\ lastOp' = Op("click", 0) =>
          UNCHANGED << capturedFrame, explorePrompt, exploreChain, status,
                       exploreStatus >>
     /\ (capturedFrame' # capturedFrame /\ capturedFrame' # Null) =>
          lastOp' = Op("click", 1)]_vars

\* a video that was not paused was clicked while a frame and a typed prompt
\* were there, and both are still there
PlayingClickReached ==
  /\ lastOp = Op("click", 0)
  /\ capturedFrame # Null /\ explorePrompt # <<>>

IsPrefix(s, t) == Len(s) <= Len(t) /\ s = SubSeq(t, 1, Len(s))

NodeIds(chain) == { chain[k].id : k \in 1 .. Len(chain) }

\* C16: a step leaves the chain alone, appends one node at its end, or
\* truncates it to a prefix; the nodes kept are unchanged and in place. A
\* node that enters the chain is the node of a request still in flight, whose
\* id no node of the chain bears, so a node that was truncated does not come
\* back.
ChainIsLinear ==
  [][/\ \/ exploreChain' = exploreChain
        \/ /\ Len(exploreChain') = Len(exploreChain) + 1
           /\ IsPrefix(exploreChain, exploreChain')
           /\ \E c \in exploreCalls :
                /\ c \notin exploreCalls'
                /\ exploreChain'[Len(exploreChain')].id = RandomUUID(c.id)
        \/ /\ Len(exploreChain') < Len(exploreChain)
           /\ IsPrefix(exploreChain', exploreChain)
     /\ Cardinality(NodeIds(exploreChain')) = Len(exploreChain')
     /\ \A c \in exploreCalls' : RandomUUID(c.id) \notin NodeIds(exploreChain')
    ]_vars

\* the node of the first request was appended behind the node of the second:
\* the chain was reset while the first request was in flight
LateAppendReached ==
  /\ Len(exploreChain) = 2
  /\ exploreChain[1].id = RandomUUID(2)
  /\ exploreChain[2].id = RandomUUID(1)
  /\ lastOp.op = "append"

\* C18: the completion of a failed exploration (a non-OK answer, a rejected
\* fetch, or a 200 answer with a null videoUrl) leaves the chain,
\* capturedFrame and explorePrompt as they were and the exploration status
\* at error.
FailedExploreKeepsInputs ==
  [][ExploreFails =>
       /\ UNCHANGED << exploreChain, capturedFrame, explorePrompt >>
       /\ exploreStatus' = "error"]_vars

\* an exploration from a node of the chain was answered 200 without a URL:
\* the chain, the frame and the prompt are still there
NullUrlKeepsInputsReached ==
  /\ exploreStatus = "error" /\ exploreMessage = "No video URL returned"
  /\ exploreChain # <<>>
  /\ capturedFrame # Null /\ Trim(explorePrompt) # <<>>

\* C19: a node that enters the chain carries the image and the prompt of the
\* request body its invocation sent, and the URL answered to that request,
\* whatever frame and prompt the page holds when the answer arrives.
NodeBoundToRequest ==
  [][Len(exploreChain') = Len(exploreChain) + 1 =>
       \E c \in exploreCalls :
         /\ c \notin exploreCalls'
         /\ LET node == exploreChain'[Len(exploreChain')] IN
              /\ node.frameImage = c.request.image
              /\ node.prompt = c.request.prompt
              /\ node.videoUrl = ExploreUrl(c.id)]_vars

\* a node was appended while a later request, sent with another frame, is
\* in flight
OtherFrameInFlightReached ==
  /\ lastOp.op = "append" /\ exploreChain # <<>>
  /\ \E c \in exploreCalls :
       /\ c.id > lastOp.arg
       /\ c.request.image # exploreChain[Len(exploreChain)].frameImage

\* the generation whose video the frame was captured from; 0 for a frame of
\* an exploration video or of a video without a URL
FrameGeneration(frame) ==
  IF frame.src # Null /\ frame.src[1] \in {"setting", "person"}
    THEN frame.src[2] ELSE 0

\* C20: once handleGenerate has started, the chain holds no node of an
\* earlier generation: it is empty while the new videos are not there, and
\* a node made from a frame of an original video is made from a video of the
\* latest generation.
ChainOfLatestGeneration ==
  /\ videos = Null => exploreChain = <<>>
  /\ \A k \in 1 .. Len(exploreChain) :
       FrameGeneration(exploreChain[k].frameImage) \in {0, genCount}

\* C21: videos is non-null exactly when the main status is done.
VideosIffDone == (videos # Null) <=> (status = "done")

\* a generation failed after an earlier one had given videos that were
\* explored: the videos are gone
VideosDroppedReached ==
  /\ status = "error" /\ videos = Null
  /\ genCount >= 2
  /\ exploreStatus = "done"

\* ====================================== the route handlers' claims, continued
\* C17: a request gets one response, and the response stays as sent; its
\* status is 200, 400 or 500; a body that cannot be read and a task that is
\* refused, fails or times out give 500 with an error body; with tasks that
\* progress every request is answered.
EveryRequestAnswered ==
  /\ [](gwResponse # Null =>
          /\ gwPc = "responded"
          /\ gwResponse[1].status \in {200, 400, 500}
          /\ gwResponse[1].status # 200 => DOMAIN gwResponse[1].body = {"error"}
          /\ (\/ NoFields(gwRequest[1].body)
              \/ \E n \in DOMAIN gwTasks : gwTasks[n].state \in Refused) =>
               gwResponse[1].status = 500)
  /\ [][gwResponse # Null =>
          gwResponse' = gwResponse \/ gwPc' = "parsing"]_vars
  /\ (gwRequest # Null /\ gwPc # "responded") ~> (gwPc = "responded")

\* /explore was answered 500 after its wait timed out
TimedOutAnsweredReached ==
  /\ gwRequest # Null /\ gwRequest[1].route = "explore"
  /\ gwPc = "responded"
  /\ "explore" \in DOMAIN gwTasks /\ gwTasks["explore"].state = "timedOut"
  /\ gwResponse[1] = [status |-> 500, body |-> [error |-> "task timed out"]]

====
